---------------------------- MODULE Spec2Model ----------------------------
(***************************************************************************)
(* A model of components.py: the class-resolution helper, the renderers of *)
(* the leaf components, Page composition over the template store, the      *)
(* response adapter and the cache-controlled static mount.                 *)
(*                                                                         *)
(* A Python string is a sequence of tokens.  Every character a caller can  *)
(* supply is a token of its own (see Chars); the fixed text of an f-string *)
(* is cut into tokens at its quote characters, so that the quote that ends *)
(* an attribute is the same token as a quote a caller supplies.            *)
(***************************************************************************)
EXTENDS Integers, Sequences, FiniteSets, TLC

\* ------------------------------------------------------------------ bounds
MaxLen == 2        \* longest caller-supplied class string
MaxItems == 2      \* longest items / options sequence
MaxObjs == 3       \* constructor calls made in one run
MaxChildren == 2   \* longest components list handed to Page
MaxTimeout == 12   \* largest cache_timeout a mount is configured with
MaxUsed == 2       \* constructor calls in a run whose callers also store fields
NumRequests == 2   \* requests served at once, each by a thread of its own
MaxSets == 1       \* field stores made after construction in one run

\* ----------------------------------------------------------------- strings
Chars == {"a", " ", "\t", "'"}
Whitespace == {" ", "\t", "\n"}

Strings(n) == UNION {[1..k -> Chars] : k \in 0..n}

RECURSIVE Concat(_)
\* "".join(parts)
Concat(parts) ==
    IF parts = <<>> THEN <<>> ELSE Head(parts) \o Concat(Tail(parts))

RECURSIVE lstrip(_)
lstrip(s) ==
    IF s # <<>> /\ Head(s) \in Whitespace THEN lstrip(Tail(s)) ELSE s

RECURSIVE rstrip(_)
rstrip(s) ==
    IF s # <<>> /\ s[Len(s)] \in Whitespace
    THEN rstrip(SubSeq(s, 1, Len(s) - 1)) ELSE s

\* str.strip() with no argument
strip(s) == rstrip(lstrip(s))

Digit(d) == CASE d = 0 -> "0" [] d = 1 -> "1" [] d = 2 -> "2" [] d = 3 -> "3"
              [] d = 4 -> "4" [] d = 5 -> "5" [] d = 6 -> "6" [] d = 7 -> "7"
              [] d = 8 -> "8" [] d = 9 -> "9"

RECURSIVE NatStr(_)
NatStr(n) == IF n < 10 THEN <<Digit(n)>> ELSE NatStr(n \div 10) \o <<Digit(n % 10)>>

\* the text an f-string puts for an int field
Str(n) == IF n < 0 THEN <<"-">> \o NatStr(0 - n) ELSE NatStr(n)


\* ------------------------------------------------------- render outcomes
\* What a call gives back: a value, or the exception it raises.
Ok(v) == [ok |-> TRUE, val |-> v]
Raise(e) == [ok |-> FALSE, err |-> e]

\* -------------------------------------------------------- BaseComponent
\* A variant that turns the missing render into an empty rendering.
BaseComponent_render_empty(self) == Ok(<<>>)

\* BaseComponent.render: always raises
BaseComponent_render(self) == Raise("NotImplementedError")

\* BaseComponent.get_classes
get_classes(self, default_classes) ==
    IF self.custom_classes # <<>>
    THEN self.custom_classes
    ELSE strip(default_classes \o <<" ">> \o self.additional_classes)

\* ---------------------------------------------------------------- leaves
Heading_default_classes == <<"text-2xl font-bold">>

Heading_render(self) ==
    LET classes == get_classes(self, Heading_default_classes)
    IN  Ok(<<"<h">> \o Str(self.level) \o <<" class=", "'">> \o classes
           \o <<"'", ">">> \o self.text \o <<"</h">> \o Str(self.level) \o <<">">>)

Button_default_classes ==
    <<"bg-slate-500 hover:bg-slate-700 text-white font-bold py-2 px-3 rounded">>

Button_render(self) ==
    LET classes == get_classes(self, Button_default_classes)
    IN  Ok(<<"<button", " class=", "'">> \o classes \o <<"'", ">">>
           \o self.text \o <<"</button>">>)

Text_default_classes == <<"text-base text-lg">>

Text_render(self) ==
    LET classes == get_classes(self, Text_default_classes)
    IN  Ok(<<"<p", " class=", "'">> \o classes \o <<"'", ">">>
           \o self.text \o <<"</p>">>)

NavBar_default_classes == <<"bg-white p-4 border-b border-slate-300">>

\* the f-string of one item (line 101)
NavBar_item_html(item) ==
    <<"<li", " class=", "'", "mr-6", "'", ">",
      "<a", " class=", "'", "text-slate-800 hover:text-slate-500", "'",
      " href=", "'">> \o item.href \o <<"'", ">">> \o item.text
    \o <<"</a>", "</li>">>

\* A variant that joins the items last to first.
NavBar_items_html_reversed(items) ==
    Concat([k \in 1..Len(items) |-> NavBar_item_html(items[Len(items) + 1 - k])])

\* lines 100-103: "".join(<the f-string> for item in self.items)
NavBar_items_html(items) ==
    Concat([k \in 1..Len(items) |-> NavBar_item_html(items[k])])

NavBar_render(self) ==
    LET classes == get_classes(self, NavBar_default_classes)
        items_html == NavBar_items_html(self.items)
    IN  Ok(<<"\n            ", "<nav", " class=", "'">> \o classes
           \o <<"'", ">", "\n                ",
                "<div", " class=", "'", "flex items-center", "'", ">",
                "\n                    ",
                "<a", " class=", "'", "text-2xl font-semibold mr-6 text-slate-800",
                "'", " href=", "'", "/", "'", ">">> \o self.title
           \o <<"</a>", "\n                    ",
                "<ul", " class=", "'", "flex", "'", ">">> \o items_html
           \o <<"</ul>", "\n                ", "</div>", "\n            ",
                "</nav>", "\n        ">>)

Dropdown_default_classes ==
    <<"bg-white border border-slate-300 text-slate-800 px-3 py-2 rounded">>

\* the f-string of one option (line 129)
Dropdown_option_html(option) ==
    <<"<option", " value=", "'">> \o option.value \o <<"'", ">">>
    \o option.label \o <<"</option>">>

\* lines 128-131: "".join(<the f-string> for option in self.options)
Dropdown_options_html(options) ==
    Concat([k \in 1..Len(options) |-> Dropdown_option_html(options[k])])

Dropdown_render(self) ==
    LET classes == get_classes(self, Dropdown_default_classes)
        options_html == Dropdown_options_html(self.options)
        label_html ==
            IF self.label # <<>>
            THEN <<"<label", " class=", "'",
                   "block text-lg font-semibold text-slate-800 mb-2", "'", ">">>
                 \o self.label \o <<"</label>">>
            ELSE <<>>
    IN  Ok(<<"\n            ", "<div", " class=", "'", "dropdown-component", "'",
             ">", "\n                ">> \o label_html
           \o <<"\n                ", "<select", " name=", "'">> \o self.name
           \o <<"'", " class=", "'">> \o classes
           \o <<"'", ">", "\n                    ">> \o options_html
           \o <<"\n                ", "</select>", "\n            ", "</div>",
                "\n        ">>)

Slider_default_classes == <<"slider bg-slate-200 appearance-none rounded h-2">>

Slider_render(self) ==
    LET classes == get_classes(self, Slider_default_classes)
        label_html ==
            IF self.label # <<>>
            THEN <<"<label", " class=", "'",
                   "block text-lg font-semibold text-slate-700 mb-2", "'", ">">>
                 \o self.label \o <<"</label>">>
            ELSE <<>>
        slider_id == <<"slider_">> \o self.name
        value_display_id == <<"value_display_">> \o self.name
    IN  Ok(<<"\n            ", "<div", " class=", "'", "slider-component", "'",
             ">", "\n                ">> \o label_html
           \o <<"\n                ", "<input", " type=", "'", "range", "'",
                " id=", "'">> \o slider_id
           \o <<"'", " name=", "'">> \o self.name
           \o <<"'", " min=", "'">> \o Str(self.min_value)
           \o <<"'", " max=", "'">> \o Str(self.max_value)
           \o <<"'", " step=", "'">> \o Str(self.step)
           \o <<"'", " value=", "'">> \o Str(self.value)
           \o <<"'", " class=", "'">> \o classes
           \o <<"'", " oninput=", "\"", "document.getElementById(", "'">>
           \o value_display_id
           \o <<"'", ").innerText = this.value", "\"", ">", "\n                ",
                "<span", " id=", "'">> \o value_display_id
           \o <<"'", " class=", "'", "ml-2", "'", ">">> \o Str(self.value)
           \o <<"</span>", "\n            ", "</div>", "\n        ">>)


\* -------------------------------------------------------------- __html__
\* A variant that renders again on every read instead of returning the
\* string the constructor stored.
BaseComponent_html_rerender(self) ==
    CASE self.kind = "Heading" -> Heading_render(self).val
      [] self.kind = "Button" -> Button_render(self).val
      [] self.kind = "Text" -> Text_render(self).val
      [] self.kind = "NavBar" -> NavBar_render(self).val
      [] self.kind = "Dropdown" -> Dropdown_render(self).val
      [] self.kind = "Slider" -> Slider_render(self).val
      [] OTHER -> self.html

\* BaseComponent.__html__
BaseComponent_html(self) == self.html

\* ------------------------------------------------------------------ Page
\* The default of Page's components argument, [BaseComponent]: a list
\* whose one element is the class; instances are numbered from 1 and the
\* class is written 0.
BaseComponentType == 0
Page_default_components == <<BaseComponentType>>

\* The files under templates/ that env can load.
TemplateNames == {"base.html"}

\* env.get_template(name)
env_get_template(name) ==
    IF name \in TemplateNames THEN Ok(name) ELSE Raise("TemplateNotFound")

\* template.render(title=..., body=...): the layout of base.html; the only
\* values it receives are the two bindings.
Template_render(template, bindings) ==
    <<"<html", ">", "<head>", "<title>">> \o bindings.title
    \o <<"</title>", "</head>", "<body", ">">> \o bindings.body
    \o <<"</body>", "</html>">>

\* A variant that takes the class for a component of empty html.
Component_html_lenient(heap, component) ==
    IF component = BaseComponentType
    THEN Ok(<<>>)
    ELSE Ok(heap[component].self.html)

\* component.__html__() for one element of a components list: an instance
\* gives its html; the class itself has no self to bind.
Component_html(heap, component) ==
    IF component = BaseComponentType
    THEN Raise("TypeError")
    ELSE Ok(BaseComponent_html(heap[component].self))

\* A variant that joins with a newline between the components.
Page_body_content_newline(self, heap) ==
    LET parts == [k \in 1..Len(self.components) |->
                      Component_html(heap, self.components[k])]
        bad == {k \in 1..Len(parts) : ~parts[k].ok}
    IN  IF bad # {}
        THEN parts[CHOOSE k \in bad : \A m \in bad : k <= m]
        ELSE Ok(Concat([k \in 1..Len(parts) |->
                    IF k = 1 THEN parts[k].val ELSE <<"\n">> \o parts[k].val]))

\* line 206: "".join(component.__html__() for component in self.components)
Page_body_content(self, heap) ==
    LET parts == [k \in 1..Len(self.components) |->
                      Component_html(heap, self.components[k])]
        bad == {k \in 1..Len(parts) : ~parts[k].ok}
    IN  IF bad # {}
        THEN parts[CHOOSE k \in bad : \A m \in bad : k <= m]
        ELSE Ok(Concat([k \in 1..Len(parts) |-> parts[k].val]))

\* Page.render; `bound` records the keyword arguments of template.render
Page_render(self, heap) ==
    LET body_content == Page_body_content(self, heap)
        template == env_get_template(self.template_name)
    IN  IF ~body_content.ok THEN body_content
        ELSE IF ~template.ok THEN template
        ELSE LET bindings == [title |-> self.title, body |-> body_content.val]
             IN  [ok |-> TRUE,
                  val |-> Template_render(template.val, bindings),
                  bound |-> bindings]

\* self.render() as the constructor's call dispatches it
render(self, heap) ==
    CASE self.kind = "Heading" -> Heading_render(self)
      [] self.kind = "Button" -> Button_render(self)
      [] self.kind = "Text" -> Text_render(self)
      [] self.kind = "NavBar" -> NavBar_render(self)
      [] self.kind = "Dropdown" -> Dropdown_render(self)
      [] self.kind = "Slider" -> Slider_render(self)
      [] self.kind = "Page" -> Page_render(self, heap)
      [] OTHER -> BaseComponent_render(self)

\* ------------------------------------------------- reading the markup back
\* the least index >= from at which tok stands in s, or 0
IndexFrom(s, tok, from) ==
    LET hits == {i \in from..Len(s) : s[i] = tok}
    IN  IF hits = {} THEN 0 ELSE CHOOSE i \in hits : \A j \in hits : i <= j

NoAttr == <<"<no attribute>">>

\* The value of attribute attr in the element opened at index i: the text
\* between the quote after the attribute's name and the next quote.
AttrAt(s, i, attr) ==
    LET close == IndexFrom(s, ">", i)
        j == IndexFrom(s, attr, i)
    IN  IF j = 0 \/ (close # 0 /\ j > close) THEN NoAttr
        ELSE LET q == IndexFrom(s, "'", j + 2)
             IN  IF q = 0 THEN NoAttr ELSE SubSeq(s, j + 2, q - 1)

\* the element a component's classes are written on
StyledTag(kind) ==
    CASE kind = "Heading" -> "<h" [] kind = "Button" -> "<button"
      [] kind = "Text" -> "<p" [] kind = "NavBar" -> "<nav"
      [] kind = "Dropdown" -> "<select" [] kind = "Slider" -> "<input"
      [] OTHER -> "<html"

\* the class attribute of a component's rendered html; an element that
\* has none has no classes
ClassAttr(kind, html) ==
    LET i == IndexFrom(html, StyledTag(kind), 1)
        v == IF i = 0 THEN NoAttr ELSE AttrAt(html, i, " class=")
    IN  IF v = NoAttr THEN <<>> ELSE v


\* ---------------------------------------------------------- static mount
\* CacheControlStaticFiles.__init__: kwargs.pop("cache_timeout", 0)
CacheControlStaticFiles_init(kwargs) ==
    [cache_timeout |-> IF "cache_timeout" \in DOMAIN kwargs
                       THEN kwargs.cache_timeout ELSE 0,
     directory |-> kwargs.directory]

\* the files under the mounted directory
StaticFilesOnDisk == {"style.css"}

\* StaticFiles.get_response of the framework, as line 18 awaits it: a file
\* response with the headers the framework chose, or the 404 it raises.
StaticFiles_get_response(path, upstream_headers) ==
    IF path \in StaticFilesOnDisk
    THEN Ok([status_code |-> 200, headers |-> upstream_headers])
    ELSE Raise("HTTPException(404)")

\* A variant that sets the header only when the response has none
\* (headers.setdefault).
CacheControlStaticFiles_get_response_setdefault(self, path, upstream_headers) ==
    LET response == StaticFiles_get_response(path, upstream_headers)
    IN  IF ~response.ok THEN response
        ELSE Ok([response.val EXCEPT !.headers =
                    @ @@ ("Cache-Control" :>
                        (<<"max-age=">> \o Str(self.cache_timeout)
                         \o <<", must-revalidate">>))])

\* CacheControlStaticFiles.get_response
CacheControlStaticFiles_get_response(self, path, upstream_headers) ==
    LET response == StaticFiles_get_response(path, upstream_headers)
    IN  IF ~response.ok THEN response
        ELSE Ok([response.val EXCEPT !.headers =
                    ("Cache-Control" :>
                        (<<"max-age=">> \o Str(self.cache_timeout)
                         \o <<", must-revalidate">>)) @@ @])

\* ------------------------------------------------------ response adapter
\* ComponentResponse.__init__: an HTMLResponse around component.__html__()
ComponentResponse_init(component) ==
    [status_code |-> 200, media_type |-> "text/html", body |-> BaseComponent_html(component)]


\* ================================================================ state
VARIABLES
    heap,    \* id -> the instance: its state, the request building it, its fields
    ghost,   \* id -> what the constructor was given and what it assigned
    last,    \* the outcome of the call that returned last
    mount,   \* the CacheControlStaticFiles instance mounted at /css
    nsets,   \* how many field stores callers have made
    rin,     \* the arguments of a call taken alone
    rout     \* what that call gave back

vars == <<heap, ghost, last, mount, nsets, rin, rout>>

Ids == 1..MaxObjs

Free == [state |-> "free", self |-> [kind |-> "none"]]
\* an instance whose constructor raised: unreachable, its fields gone
Dead == [state |-> "dead", self |-> [kind |-> "none"]]
NoGhost == [args |-> [kind |-> "none"], nassign |-> 0]
NoCall == [op |-> "none"]
Pending == [ok |-> FALSE, err |-> "pending"]
Idle == [kind |-> "none"]
NoBindings == [title |-> <<>>, body |-> <<>>, none |-> TRUE]

Live(h) == {i \in Ids : h[i].state = "live"}
\* the instances whose constructor some request is running
InInit(h) == {i \in Ids : h[i].state = "init"}

\* sequences over S of length at most n
SeqsUpTo(S, n) == UNION {[1..k -> S] : k \in 0..n}

\* ------------------------------------------------ constructor arguments
LeafArgs ==
    {[kind |-> "Heading", text |-> <<"Hi">>, level |-> 3,
      additional_classes |-> <<>>, custom_classes |-> <<"x">>],
     [kind |-> "Button", text |-> <<"Go">>,
      additional_classes |-> <<"m">>, custom_classes |-> <<>>],
     [kind |-> "NavBar", title |-> <<"Site">>,
      items |-> <<[href |-> <<"/a">>, text |-> <<"A">>]>>,
      additional_classes |-> <<>>, custom_classes |-> <<>>]}

\* BaseComponent itself, and a subclass that defines no render
AbstractArgs ==
    {[kind |-> k, additional_classes |-> <<>>, custom_classes |-> <<>>] :
        k \in {"BaseComponent", "Subclass"}}

\* Page over a template that exists: the default list, or any list of
\* constructed components
PageArgs(h) ==
    {[kind |-> "Page", template_name |-> "base.html", title |-> <<"T">>,
      components |-> cs,
      additional_classes |-> <<>>, custom_classes |-> <<>>] :
        cs \in {Page_default_components} \cup SeqsUpTo(Live(h), MaxChildren)}

\* Page over a template name the store does not hold
MissingPageArgs(h) ==
    {[kind |-> "Page", template_name |-> "missing.html", title |-> <<"T">>,
      components |-> cs,
      additional_classes |-> <<>>, custom_classes |-> <<>>] :
        cs \in {Page_default_components, <<>>} \cup {<<i>> : i \in Live(h)}}

\* ----------------------------------------------------------------- Init
\* line 25: the mount the application makes
AppMount == CacheControlStaticFiles_init([directory |-> "css", cache_timeout |-> 0])

Init ==
    /\ heap = [i \in Ids |-> Free]
    /\ ghost = [i \in Ids |-> NoGhost]
    /\ last = NoCall
    /\ mount = AppMount
    /\ nsets = 0
    /\ rin = Idle
    /\ rout = Pending

\* -------------------------------------------------------------- actions
\* __init__ up to the call of render, in one of the requests being served:
\* the argument stores of the subclass and of BaseComponent (lines 30-31),
\* on a fresh instance.
BeginInit(args) ==
    /\ Cardinality(InInit(heap)) < NumRequests
    /\ \E i \in Ids :
        /\ heap[i].state = "free"
        /\ \A j \in Ids : j < i => heap[j].state # "free"
        /\ heap' = [heap EXCEPT ![i] = [state |-> "init", self |-> args]]
        /\ ghost' = [ghost EXCEPT ![i] = [args |-> args, nassign |-> 0]]
    /\ UNCHANGED <<last, mount, nsets, rin, rout>>

\* A variant in which the fields live on the class, shared by every
\* instance: render sees the fields of the constructor call begun last.
RenderSubject_shared(h, i) ==
    h[CHOOSE j \in InInit(h) : \A k \in InInit(h) : k <= j].self

\* the self that line 32's self.render() renders: the instance's own fields
RenderSubject(h, i) == h[i].self

\* line 32: self.html = self.render().  A render that raises leaves the
\* constructor by the exception: no html, no instance for the caller, and
\* the half-built object is garbage.
FinishInit(i) ==
    /\ heap[i].state = "init"
    /\ LET r == render(RenderSubject(heap, i), heap)
       IN  IF r.ok
           THEN /\ heap' = [heap EXCEPT ![i].state = "live",
                                        ![i].self = [html |-> r.val] @@ @]
                /\ ghost' = [ghost EXCEPT ![i] =
                                [args |-> @.args, nassign |-> @.nassign + 1,
                                 html |-> r.val,
                                 bound |-> IF "bound" \in DOMAIN r
                                           THEN r.bound ELSE NoBindings]]
                /\ last' = [op |-> "init", id |-> i, args |-> heap[i].self,
                            outcome |-> Ok(r.val)]
           ELSE /\ heap' = [heap EXCEPT ![i] = Dead]
                /\ ghost' = [ghost EXCEPT ![i] = NoGhost]
                /\ last' = [op |-> "init", id |-> 0, args |-> heap[i].self,
                            outcome |-> r]
    /\ UNCHANGED <<mount, nsets, rin, rout>>

\* a caller reads component.__html__()
CallHtml(i) ==
    /\ heap[i].state = "live"
    /\ last' = [op |-> "__html__", id |-> i,
                outcome |-> Ok(BaseComponent_html(heap[i].self))]
    /\ UNCHANGED <<heap, ghost, mount, nsets, rin, rout>>

\* a handler returns ComponentResponse(component)
Respond(i) ==
    /\ heap[i].state = "live"
    /\ last' = [op |-> "ComponentResponse", id |-> i,
                outcome |-> Ok(ComponentResponse_init(heap[i].self))]
    /\ UNCHANGED <<heap, ghost, mount, nsets, rin, rout>>

\* the fields callers store into after construction, and the values
Fields == {"custom_classes", "additional_classes", "text", "level", "items",
           "components"}

NewValues(f) ==
    CASE f \in {"additional_classes", "custom_classes", "text"} -> {<<"z">>}
      [] f = "level" -> {2}
      [] f = "items" -> {<<>>}
      [] f = "components" -> {<<>>}

\* component.<field> = value, on a constructed instance
SetField(i, f, v) ==
    /\ heap[i].state = "live"
    /\ f \in DOMAIN heap[i].self \ {"kind", "html"}
    /\ v \in NewValues(f)
    /\ nsets < MaxSets
    /\ nsets' = nsets + 1
    /\ heap' = [heap EXCEPT ![i].self[f] = v]
    /\ last' = [op |-> "setattr", id |-> i, field |-> f]
    /\ UNCHANGED <<ghost, mount, rin, rout>>

Next ==
    \/ \E a \in LeafArgs : BeginInit(a)
    \/ \E a \in AbstractArgs : BeginInit(a)
    \/ \E a \in PageArgs(heap) : BeginInit(a)
    \/ \E a \in MissingPageArgs(heap) : BeginInit(a)
    \/ \E i \in Ids : FinishInit(i)

Spec == Init /\ [][Next]_vars

\* The same machine with its callers reading and overwriting the instances,
\* on at most MaxUsed of them.
HasRoom == Cardinality({i \in Ids : heap[i].state # "free"}) < MaxUsed

NextUse ==
    \/ \E a \in LeafArgs : HasRoom /\ BeginInit(a)
    \/ \E a \in PageArgs(heap) : HasRoom /\ BeginInit(a)
    \/ \E i \in Ids : FinishInit(i)
    \/ \E i \in Ids : CallHtml(i)
    \/ \E i \in Ids : Respond(i)
    \/ \E i \in Ids : \E f \in Fields : \E v \in NewValues(f) : SetField(i, f, v)

SpecUse == Init /\ [][NextUse]_vars


\* ============================================= one component, rendered alone
ClassStrings == Strings(MaxLen)

\* item and option fields: plain words, and one that holds a quote
Hrefs == {<<"/a">>, <<"/b">>, <<"/a", "'", "b">>}
Words == {<<"A">>, <<"B">>}
NavItems == {[href |-> h, text |-> t] : h \in Hrefs, t \in Words}
Options == {[value |-> v, label |-> l] : v \in Hrefs, l \in Words}

\* The class arguments: every additional_classes with custom_classes left
\* empty, and every custom_classes over an empty, a plain and a blank
\* additional_classes (line 38 ignores additional_classes when custom_classes
\* is truthy).
ClassPairs ==
    {[ac |-> ac, cc |-> <<>>] : ac \in ClassStrings}
    \cup {[ac |-> ac, cc |-> cc] :
            ac \in {<<>>, <<"a">>, <<" ">>}, cc \in ClassStrings}

\* For every kind, every pair of class arguments; for NavBar and Dropdown also
\* every sequence of entries.
RenderInputs ==
    {[kind |-> "Heading", text |-> <<"Hi">>, level |-> lv,
      additional_classes |-> p.ac, custom_classes |-> p.cc] :
        lv \in {1, 3, 10}, p \in ClassPairs}
    \cup {[kind |-> k, text |-> t,
           additional_classes |-> p.ac, custom_classes |-> p.cc] :
        k \in {"Button", "Text"}, t \in {<<>>, <<"Go">>},
        p \in ClassPairs}
    \cup {[kind |-> "NavBar", title |-> <<"Site">>,
           items |-> <<[href |-> <<"/a">>, text |-> <<"A">>]>>,
           additional_classes |-> p.ac, custom_classes |-> p.cc] :
        p \in ClassPairs}
    \cup {[kind |-> "NavBar", title |-> <<"Site">>, items |-> its,
           additional_classes |-> <<>>, custom_classes |-> cc] :
        its \in SeqsUpTo(NavItems, MaxItems), cc \in {<<>>, <<"x">>}}
    \cup {[kind |-> "Dropdown", name |-> <<"d">>,
           options |-> <<[value |-> <<"1">>, label |-> <<"One">>]>>,
           label |-> lb, additional_classes |-> p.ac, custom_classes |-> p.cc] :
        lb \in {<<>>, <<"Pick">>}, p \in ClassPairs}
    \cup {[kind |-> "Dropdown", name |-> <<"d">>, options |-> ops,
           label |-> lb, additional_classes |-> <<>>, custom_classes |-> <<>>] :
        ops \in SeqsUpTo(Options, MaxItems), lb \in {<<>>, <<"Pick">>}}
    \cup {[kind |-> "Slider", name |-> <<"vol">>, min_value |-> r[1],
           max_value |-> r[2], step |-> 1, value |-> r[3], label |-> lb,
           additional_classes |-> p.ac, custom_classes |-> p.cc] :
        r \in {<<0, 100, 50>>, <<-5, 5, 7>>}, lb \in {<<>>, <<"Vol">>},
        p \in ClassPairs}
    \cup {[kind |-> "Page", template_name |-> "base.html", title |-> <<"T">>,
           components |-> <<>>,
           additional_classes |-> p.ac, custom_classes |-> p.cc] :
        p \in ClassPairs}

InitRender ==
    /\ heap = [i \in Ids |-> Free]
    /\ ghost = [i \in Ids |-> NoGhost]
    /\ last = NoCall
    /\ mount = AppMount
    /\ nsets = 0
    /\ rin \in RenderInputs
    /\ rout = Pending

\* the render call of the constructor, on the fields the constructor stored
ApplyRender ==
    /\ rout = Pending
    /\ rout' = render(rin, heap)
    /\ UNCHANGED <<heap, ghost, last, mount, nsets, rin>>

SpecRender == InitRender /\ [][ApplyRender]_vars

\* ======================================================= the static mount
\* the keyword arguments a mount is made with: cache_timeout given or not
MountKwargs ==
    {[directory |-> "css"]}
    \cup {[directory |-> "css", cache_timeout |-> n] : n \in 0..MaxTimeout}

\* what the framework's file response may carry before line 19
UpstreamHeaders ==
    {("content-type" :> <<"text/css">>),
     ("content-type" :> <<"text/css">>)
        @@ ("Cache-Control" :> <<"public, max-age=3600">>),
     ("content-type" :> <<"text/css">>)
        @@ ("Cache-Control" :> <<"no-store">>)}

RequestPaths == {"style.css", "nope.css", "../server.py"}

InitStatic ==
    /\ heap = [i \in Ids |-> Free]
    /\ ghost = [i \in Ids |-> NoGhost]
    /\ last = NoCall
    /\ nsets = 0
    /\ rin \in MountKwargs
    /\ mount = CacheControlStaticFiles_init(rin)
    /\ rout = Pending

\* a request under the mount: CacheControlStaticFiles.get_response(path, scope)
GetResponse(path, upstream_headers) ==
    /\ last' = [op |-> "get_response", path |-> path,
                upstream |-> upstream_headers,
                outcome |-> CacheControlStaticFiles_get_response(
                                mount, path, upstream_headers)]
    /\ UNCHANGED <<heap, ghost, mount, nsets, rin, rout>>

NextStatic == \E p \in RequestPaths : \E u \in UpstreamHeaders : GetResponse(p, u)

SpecStatic == InitStatic /\ [][NextStatic]_vars


\* ==================================================== properties: rendering
Rendered == rout.ok
LeafKinds == {"Heading", "Button", "Text", "NavBar", "Dropdown", "Slider"}

\* the default classes each kind's render passes to get_classes; Page's
\* render passes none
DefaultClassesOf(kind) ==
    CASE kind = "Heading" -> Heading_default_classes
      [] kind = "Button" -> Button_default_classes
      [] kind = "Text" -> Text_default_classes
      [] kind = "NavBar" -> NavBar_default_classes
      [] kind = "Dropdown" -> Dropdown_default_classes
      [] kind = "Slider" -> Slider_default_classes
      [] OTHER -> <<>>

HasQuote(s) == \E k \in 1..Len(s) : s[k] = "'"

\* t is s with its leading and trailing whitespace removed
IsTrimOf(t, s) ==
    \E i \in 1..(Len(s) + 1) : \E j \in 0..Len(s) :
        /\ t = SubSeq(s, i, j)
        /\ \A k \in 1..(i - 1) : s[k] \in Whitespace
        /\ \A k \in (j + 1)..Len(s) : s[k] \in Whitespace
        /\ t = <<>> \/ (t[1] \notin Whitespace /\ t[Len(t)] \notin Whitespace)

\* C1: for every component type, Page among them, a non-empty
\* custom_classes is exactly the class attribute of the rendered html
\* (stated for class strings that hold no quote).
C1_CustomClassesOverride ==
    (Rendered /\ rin.custom_classes # <<>> /\ ~HasQuote(rin.custom_classes))
        => ClassAttr(rin.kind, rout.val) = rin.custom_classes

\* What the leaf components do for C1: the custom classes are written
\* verbatim between the quotes of the class attribute, so they are the
\* attribute whenever they hold no quote of their own.
C1_LeafCustomClasses ==
    (Rendered /\ rin.kind \in LeafKinds /\ rin.custom_classes # <<>>
       /\ ~HasQuote(rin.custom_classes))
        => ClassAttr(rin.kind, rout.val) = rin.custom_classes

\* C2: for every component type, Page among them, with custom_classes
\* empty the class attribute is trim(default classes + " " + additional
\* classes) (stated for class strings that hold no quote).
C2_DefaultThenAdditional ==
    (Rendered /\ rin.custom_classes = <<>> /\ ~HasQuote(rin.additional_classes))
        => IsTrimOf(ClassAttr(rin.kind, rout.val),
                    DefaultClassesOf(rin.kind) \o <<" ">> \o rin.additional_classes)

\* What the leaf components do for C2, the additional classes holding no
\* quote.
C2_LeafDefaultThenAdditional ==
    (Rendered /\ rin.kind \in LeafKinds /\ rin.custom_classes = <<>>
       /\ ~HasQuote(rin.additional_classes))
        => IsTrimOf(ClassAttr(rin.kind, rout.val),
                    DefaultClassesOf(rin.kind) \o <<" ">> \o rin.additional_classes)

\* ------------------------------------------------ entries read back
\* the indices at which tok stands in s, in increasing order
RECURSIVE IndicesFrom(_, _, _)
IndicesFrom(s, tok, from) ==
    LET i == IndexFrom(s, tok, from)
    IN  IF i = 0 THEN <<>> ELSE <<i>> \o IndicesFrom(s, tok, i + 1)

\* the text of the element whose opening tag closes at or after index i, up
\* to the closing tag
TextAfter(s, i, closing) ==
    LET gt == IndexFrom(s, ">", i)
        e == IndexFrom(s, closing, gt + 1)
    IN  IF gt = 0 \/ e = 0 THEN NoAttr ELSE SubSeq(s, gt + 1, e - 1)

\* the <li> entries of a rendered NavBar: the href and the text of each <a>
NavEntries(html) ==
    LET lis == IndicesFrom(html, "<li", 1)
    IN  [k \in 1..Len(lis) |->
            LET a == IndexFrom(html, "<a", lis[k])
            IN  [href |-> AttrAt(html, a, " href="),
                 text |-> TextAfter(html, a, "</a>")]]

\* the <option> entries of a rendered Dropdown
OptionEntries(html) ==
    LET ops == IndicesFrom(html, "<option", 1)
    IN  [k \in 1..Len(ops) |->
            [value |-> AttrAt(html, ops[k], " value="),
             label |-> TextAfter(html, ops[k], "</option>")]]

QuoteFreeItems == \A k \in 1..Len(rin.items) : ~HasQuote(rin.items[k].href)
QuoteFreeOptions == \A k \in 1..Len(rin.options) : ~HasQuote(rin.options[k].value)

LiveIds == {i \in Ids : heap[i].state = "live"}

\* what rendering the instance's present fields would give
RenderNow(i) == render([f \in DOMAIN heap[i].self \ {"html"} |-> heap[i].self[f]], heap)

\* C3: html is assigned once, by the constructor, and every later read
\* (__html__, ComponentResponse) gives the string the constructor stored,
\* whatever was stored into the fields or composed into a Page since.
C3_HtmlAssignedOnce ==
    /\ \A i \in LiveIds :
            /\ ghost[i].nassign = 1
            /\ heap[i].self.html = ghost[i].html
    /\ \A i \in Ids : heap[i].state # "live" => ghost[i].nassign = 0
    /\ last.op = "__html__" => last.outcome.val = ghost[last.id].html
    /\ last.op = "ComponentResponse" => last.outcome.val.body = ghost[last.id].html

\* a field store has made a fresh render differ from html, and html was
\* read after it
C3_Witness ==
    /\ last.op = "__html__"
    /\ nsets > 0
    /\ RenderNow(last.id).ok
    /\ RenderNow(last.id).val # heap[last.id].self.html
    /\ last.outcome.val = ghost[last.id].html


\* ============================================== properties: construction
Pages == {i \in LiveIds : heap[i].self.kind = "Page"}

\* the html of the k-th component of a list of instances
ChildHtml(cs, k) == heap[cs[k]].self.html

\* the length of the html of the components before the k-th
RECURSIVE Offset(_, _)
Offset(cs, k) == IF k <= 1 THEN 0 ELSE Offset(cs, k - 1) + Len(ChildHtml(cs, k - 1))

\* a construction of a Page from a list of constructed instances has returned
PageOverInstances ==
    /\ last.op = "init"
    /\ last.args.kind = "Page"
    /\ last.args.components # Page_default_components

\* C4: the body handed to the template is the components' html one after
\* the other, in list order, with nothing between, before or after; the
\* title handed over is the title argument; and a Page over constructed
\* components and a stored template is always built.
C4_BodyIsConcatenation ==
    /\ \A p \in Pages :
        LET cs == ghost[p].args.components
            b == ghost[p].bound
        IN  /\ b.title = ghost[p].args.title
            /\ Len(b.body) = Offset(cs, Len(cs) + 1)
            /\ \A k \in 1..Len(cs) :
                SubSeq(b.body, Offset(cs, k) + 1, Offset(cs, k + 1)) = ChildHtml(cs, k)
    /\ (PageOverInstances /\ last.args.template_name \in TemplateNames)
            => last.outcome.ok

\* a Page over two different components with different html stands
C4_Witness ==
    \E p \in Pages :
        LET cs == ghost[p].args.components
        IN  /\ Len(cs) = 2
            /\ cs[1] # cs[2]
            /\ ChildHtml(cs, 1) # ChildHtml(cs, 2)
            /\ ghost[p].bound.body = ChildHtml(cs, 1) \o ChildHtml(cs, 2)

AbstractKinds == {"BaseComponent", "Subclass"}

\* C5: constructing BaseComponent, or a subclass without a render of its
\* own, ends in NotImplementedError raised out of the constructor: no
\* instance of such a class ever stands with an html.
C5_AbstractNeverConstructed ==
    /\ \A i \in LiveIds : heap[i].self.kind \notin AbstractKinds
    /\ (last.op = "init" /\ last.args.kind \in AbstractKinds)
            => /\ ~last.outcome.ok
               /\ last.outcome.err = "NotImplementedError"
               /\ last.id = 0

\* the constructor of a subclass without render has raised
C5_Witness ==
    /\ last.op = "init"
    /\ last.args.kind = "Subclass"
    /\ ~last.outcome.ok

\* C6: a template name the store does not hold makes the construction of
\* the Page end in the store's lookup failure, whatever else was passed.
C6_MissingTemplatePropagates ==
    (last.op = "init" /\ last.args.kind = "Page"
        /\ last.args.template_name \notin TemplateNames)
            => (~last.outcome.ok /\ last.outcome.err = "TemplateNotFound")

\* What the code does for C6 when the components are constructed
\* instances: the lookup failure leaves the constructor, no Page stands,
\* and the children keep their html.
C6_MissingTemplateOverInstances ==
    /\ (PageOverInstances /\ last.args.template_name \notin TemplateNames)
            => (~last.outcome.ok /\ last.outcome.err = "TemplateNotFound"
                /\ last.id = 0)
    /\ \A p \in Pages : ghost[p].args.template_name \in TemplateNames
    /\ \A i \in LiveIds : heap[i].self.html = ghost[i].html

\* C9: the default components list is one element long, the class
\* BaseComponent and no instance; a Page constructed with it ends in the
\* TypeError of calling __html__ on the class, and no Page of an empty
\* body is built in its place.
C9_DefaultComponentsFail ==
    /\ Len(Page_default_components) = 1
    /\ Page_default_components[1] = BaseComponentType
    /\ BaseComponentType \notin Ids
    /\ (last.op = "init" /\ last.args.kind = "Page"
            /\ last.args.components = Page_default_components)
            => (~last.outcome.ok /\ last.outcome.err = "TypeError" /\ last.id = 0)
    /\ \A p \in Pages : ghost[p].args.components # Page_default_components

\* Page(template_name="base.html") with the default components has raised
C9_Witness ==
    /\ last.op = "init"
    /\ last.args.kind = "Page"
    /\ last.args.components = Page_default_components
    /\ last.args.template_name \in TemplateNames
    /\ ~last.outcome.ok

\* the inputs a component's html may depend on: its constructor arguments,
\* a Page's components counted by their html
InputsOf(i) ==
    IF ghost[i].args.kind = "Page"
    THEN [ghost[i].args EXCEPT
            !.components = [k \in 1..Len(@) |-> heap[@[k]].self.html]]
    ELSE ghost[i].args

\* C10: under every interleaving of the requests' constructors, the html
\* of each component is the rendering of its own constructor arguments
\* (for a Page, over its components' html and the template store), and
\* components built from equal inputs have equal html.
C10_HtmlDependsOnOwnInputs ==
    /\ \A i \in LiveIds :
        /\ render(ghost[i].args, heap).ok
        /\ heap[i].self.html = render(ghost[i].args, heap).val
    /\ \A i, j \in LiveIds :
        InputsOf(i) = InputsOf(j) => heap[i].self.html = heap[j].self.html

\* a constructor begun later has finished while one begun earlier, on
\* other arguments, is still before its render call
C10_Witness ==
    \E i, j \in Ids :
        /\ j < i
        /\ heap[j].state = "init"
        /\ heap[i].state = "live"
        /\ ghost[i].args # ghost[j].args


\* ============================================== properties: static mount
DigitValue(c) ==
    CASE c = "0" -> 0 [] c = "1" -> 1 [] c = "2" -> 2 [] c = "3" -> 3
      [] c = "4" -> 4 [] c = "5" -> 5 [] c = "6" -> 6 [] c = "7" -> 7
      [] c = "8" -> 8 [] c = "9" -> 9 [] OTHER -> -1

\* the number a sequence of decimal digits writes, or -1
RECURSIVE ParseNat(_)
ParseNat(ds) ==
    IF ds = <<>> THEN -1
    ELSE LET d == DigitValue(ds[Len(ds)])
             front == SubSeq(ds, 1, Len(ds) - 1)
         IN  IF d < 0 THEN -1
             ELSE IF front = <<>> THEN d
             ELSE IF ParseNat(front) < 0 THEN -1 ELSE 10 * ParseNat(front) + d

\* the timeout the mount was configured with: the one given, else 0
ConfiguredTimeout == IF "cache_timeout" \in DOMAIN rin THEN rin.cache_timeout ELSE 0

\* value reads max-age=<n>, must-revalidate
IsMaxAgeRevalidate(value, n) ==
    /\ Len(value) >= 3
    /\ value[1] = "max-age="
    /\ value[Len(value)] = ", must-revalidate"
    /\ ParseNat(SubSeq(value, 2, Len(value) - 1)) = n

\* C7: every response the mount returns carries Cache-Control
\* max-age=<cache_timeout>, must-revalidate, cache_timeout being the
\* configured value or 0 when none was given, whatever the framework had
\* put there and with the other headers kept; a path that is not under the
\* directory ends in the not-found failure and no response.
C7_CacheControlOverwritten ==
    last.op = "get_response" =>
        /\ last.path \in StaticFilesOnDisk =>
            /\ last.outcome.ok
            /\ "Cache-Control" \in DOMAIN last.outcome.val.headers
            /\ IsMaxAgeRevalidate(last.outcome.val.headers["Cache-Control"],
                                  ConfiguredTimeout)
            /\ \A h \in DOMAIN last.upstream \ {"Cache-Control"} :
                    last.outcome.val.headers[h] = last.upstream[h]
        /\ last.path \notin StaticFilesOnDisk =>
            /\ ~last.outcome.ok
            /\ last.outcome.err = "HTTPException(404)"

\* a mount made without cache_timeout has answered for a file whose
\* response came with a Cache-Control of the framework's
C7_Witness ==
    /\ last.op = "get_response"
    /\ "cache_timeout" \notin DOMAIN rin
    /\ last.outcome.ok
    /\ "Cache-Control" \in DOMAIN last.upstream
    /\ last.outcome.val.headers["Cache-Control"] # last.upstream["Cache-Control"]

=============================================================================
